---- MODULE Spec2Model ----
(***************************************************************************)
(* Telecom Sector Visualizer (app_csv_visualizer.py).                      *)
(*                                                                         *)
(* Two machines over one set of variables:                                 *)
(*   SpecPoly  one direct call of get_sector_polygon on arguments drawn    *)
(*             from bounded sets;                                          *)
(*   Spec      one run of the Streamlit script on an uploaded file: the    *)
(*             column check, dropna, the map centre, the plotting loop     *)
(*             and the final render.                                       *)
(*                                                                         *)
(* Numbers.  A Python float is a record [k, v]:                            *)
(*   k = "fin"  the finite value v / Resolution (degrees), or v metres     *)
(*              for a radius;                                              *)
(*   k = "tiny" the finite value 1e-30, a positive float that every       *)
(*              non-zero multiple of 1 / (2 * Resolution) absorbs: x + y   *)
(*              and x - y round to x for such an x and y = 1e-30;          *)
(*   k = "nan"  NaN;          k = "inf"  v = 1 for +inf, -1 for -inf.      *)
(* A CSV cell is a float or [k |-> "text"], a string float() rejects.      *)
(* Bearings are [k |-> "rat", num, den], num / den degrees, or             *)
(* [k |-> "tiny", num, den], num / den times 1e-30 degrees.                *)
(* Float rounding is modelled where it changes the result: a beamwidth of  *)
(* 1e-30 is absorbed by a non-zero azimuth (azimuth - beamwidth / 2 is the *)
(* azimuth), and the argument of math.asin may round above 1 when an arc   *)
(* point falls on a pole, and then either outcome is allowed.              *)
(***************************************************************************)
EXTENDS Integers, Sequences, FiniteSets, TLC

\* ------------------------------------------------------------------------
\* Bounds of the model
\* ------------------------------------------------------------------------

\* fixed-point units per degree
Resolution == 4

\* longest "small" CSV, whose rows take every kind of RowKinds
SmallRows == 2

\* length of the "large" CSV, long enough to cross the loop's cap
MaxRows == 104

\* number of trailing rows of the large CSV that vary
TailLen == 3

\* ------------------------------------------------------------------------
\* Floats
\* ------------------------------------------------------------------------

Fin(v) == [k |-> "fin", v |-> v]

NaN == [k |-> "nan", v |-> 0]

Inf(s) == [k |-> "inf", v |-> s]

Text == [k |-> "text", v |-> 0]

\* the float 1e-30
Tiny == [k |-> "tiny", v |-> 1]

Deg(d) == Fin(d * Resolution)

\* Python's x > c for a float x and a finite c >= 1 (in fixed-point units)
GreaterThan(x, c) ==
    CASE x.k = "fin" -> x.v > c
      [] x.k = "tiny" -> FALSE
      [] x.k = "inf" -> x.v = 1
      [] OTHER -> FALSE

\* Python's int(x) on a finite float: truncation toward zero
Trunc(x) == IF x.v >= 0 THEN x.v \div Resolution ELSE -((-x.v) \div Resolution)

Raise(e) == [status |-> "raise", error |-> e, value |-> << >>]

Return(v) == [status |-> "return", error |-> "", value |-> v]

\* ------------------------------------------------------------------------
\* get_sector_polygon
\* ------------------------------------------------------------------------

\* Earth's radius in metres
R == 6378137

\* line 44 without the threshold: one point per degree whatever the width
num_points_per_degree(beamwidth) ==
    LET n == IF beamwidth.k = "fin" THEN Trunc(beamwidth) ELSE 10
    IN  n

\* line 44 with round() in place of int(): half up
num_points_rounded(beamwidth) ==
    LET n == IF GreaterThan(beamwidth, 10 * Resolution)
             THEN (2 * beamwidth.v + Resolution) \div (2 * Resolution)
             ELSE 10
    IN  IF n < 3 THEN 3 ELSE n

\* lines 44-45: number of arc points (beamwidth is not +inf here)
num_points(beamwidth) ==
    LET n == IF GreaterThan(beamwidth, 10 * Resolution) THEN Trunc(beamwidth) ELSE 10
    IN  IF n < 3 THEN 3 ELSE n

\* lines 38-40, 47 with the index scaled by i / num_points
angle_open_ended(azimuth, beamwidth, n, i) ==
    IF azimuth.k = "fin" /\ beamwidth.k = "fin"
    THEN [k |-> "rat",
          num |-> (2 * azimuth.v - beamwidth.v) * n + 2 * beamwidth.v * i,
          den |-> 2 * n * Resolution]
    ELSE [k |-> "nan", num |-> 0, den |-> 1]

\* lines 38-40, 47 with the whole beamwidth on either side of the azimuth
angle_unhalved(azimuth, beamwidth, n, i) ==
    IF azimuth.k = "fin" /\ beamwidth.k = "fin"
    THEN [k |-> "rat",
          num |-> (azimuth.v - beamwidth.v) * (n - 1) + 2 * beamwidth.v * i,
          den |-> (n - 1) * Resolution]
    ELSE [k |-> "nan", num |-> 0, den |-> 1]

\* lines 38-40, 47: angles[i] = start_angle + (end_angle - start_angle) * i / (n - 1)
\* with start_angle = azimuth - beamwidth / 2, end_angle = azimuth + beamwidth / 2,
\* over the common denominator 2 * (n - 1) * Resolution.  The float 1e-30 is
\* absorbed by a non-zero term: with the beamwidth 1e-30 and a non-zero
\* azimuth both sums round to the azimuth, so that end_angle - start_angle
\* is 0.0 and every angle is the azimuth; with the azimuth 1e-30 and a
\* non-zero beamwidth the angles are those of the azimuth 0.0.  Where both
\* terms are 0.0 or 1e-30 the angles are multiples of 1e-30.  A non-finite
\* azimuth or beamwidth makes every angle NaN (inf - inf, inf * 0).
angle(azimuth, beamwidth, n, i) ==
    LET az == IF azimuth.k = "tiny" /\ beamwidth.k = "fin" /\ beamwidth.v # 0
              THEN [k |-> "fin", v |-> 0] ELSE azimuth
        bw == IF beamwidth.k = "tiny" /\ azimuth.k = "fin" /\ azimuth.v # 0
              THEN [k |-> "fin", v |-> 0] ELSE beamwidth
    IN  IF az.k = "fin" /\ bw.k = "fin"
        THEN [k |-> "rat",
              num |-> (2 * az.v - bw.v) * (n - 1) + 2 * bw.v * i,
              den |-> 2 * (n - 1) * Resolution]
        ELSE IF az.k \in {"fin", "tiny"} /\ bw.k \in {"fin", "tiny"}
        THEN [k |-> "tiny",
              num |-> (2 * az.v - bw.v) * (n - 1) + 2 * bw.v * i,
              den |-> 2 * (n - 1)]
        ELSE [k |-> "nan", num |-> 0, den |-> 1]

\* distance of the bearing theta from the nearest whole number of turns past
\* offset degrees, in units of 1 / theta.den degrees
off_turns(theta, offset) ==
    LET r == (theta.num - offset * theta.den) % (360 * theta.den)
    IN  IF 2 * r <= 360 * theta.den THEN r ELSE 360 * theta.den - r

\* distance of the latitude from the nearest pole (90 + 180 t degrees), in
\* units of 1 / Resolution degrees
colatitude(lat) ==
    LET r == (lat.v - 90 * Resolution) % (180 * Resolution)
    IN  IF 2 * r <= 180 * Resolution THEN r ELSE 180 * Resolution - r

\* line 69: going radius_meters along the meridian (s = 1 northwards, s = -1
\* southwards) from lat ends within 0.25 m of a pole: lat + s * delta =
\* 90 + 180 t degrees for an integer t.  Whole turns of 2 * pi * R =
\* 40075016.68558 m are taken off the radius first; one degree of arc is
\* pi * R / 180 = 111319.49079 m; the comparison is made in units of 10
\* micrometres.
near_pole(lat, s, radius_meters) ==
    LET turns == radius_meters.v \div 40075016
        along == s * (radius_meters.v - turns * 40075016) * Resolution
        short == s * turns * 68558 * Resolution
        t0 == (lat.v + (along \div 111319) - 90 * Resolution) \div (180 * Resolution)
    IN  \E t \in (t0 - 1)..(t0 + 1) :
           LET k == (90 + 180 * t) * Resolution - lat.v
               q == (k * 49079) \div 100000
               D == along - k * 111319 - q
               d == D * 100000 - (k * 49079 - q * 100000) - short
           IN  /\ D >= -(200 * Resolution) /\ D <= 200 * Resolution
               /\ d >= -(25000 * Resolution) /\ d <= 25000 * Resolution

\* line 69: the bearing theta is close enough to the meridian of direction s
\* for the destination to be the one along the meridian, up to the rounding
\* of the sum: cos(phi1) sin(delta) (1 - s cos(theta)) is below 2^-51, which
\* x * c <= 0.00036 square degrees guarantees for x the bearing's distance
\* from the meridian and c the latitude's from the pole.
along_meridian(lat, theta, s) ==
    \/ colatitude(lat) = 0 /\ theta.k \in {"rat", "tiny"}
    \/ theta.k = "tiny" /\ s = 1
    \/ /\ theta.k = "rat"
       /\ theta.den > 0
       /\ LET x == off_turns(theta, 90 - 90 * s)
          IN  /\ x <= theta.den \div 100
              /\ x * colatitude(lat) <= (36 * theta.den * Resolution) \div 100000

\* line 69: the argument of math.asin, sin(phi1) cos(delta) + cos(phi1)
\* sin(delta) cos(theta), is the sine of the destination's latitude.  It is
\* 1 or -1 when the destination is a pole; within 0.17 m of one (1 - cos(eps)
\* below 2^-51.5) the rounded sum may exceed 1 and math.asin raise
\* ValueError.  The predicate holds wherever the rounded sum can exceed 1;
\* whether it does depends on the last bit of each product.  A latitude of
\* 1e-30 adds nothing to the sum, and a radius of 1e-30 leaves it at
\* sin(phi1), which math.asin accepts.
asin_out_of_domain(lat, theta, radius_meters) ==
    LET phi1 == IF lat.k = "tiny" THEN [k |-> "fin", v |-> 0] ELSE lat
    IN  /\ phi1.k = "fin"
        /\ radius_meters.k = "fin"
        /\ radius_meters.v # 0
        /\ \E s \in {1, -1} :
              near_pole(phi1, s, radius_meters) /\ along_meridian(phi1, theta, s)

\* lines 64-75 when nothing raises: the pair (p_lat, p_lon) of the two
\* formulas applied to their arguments
arc_point(lat, lon, theta, radius_meters) ==
    << [k |-> "phi2", phi1 |-> lat, theta |-> theta,
        delta |-> [num |-> radius_meters, den |-> R]],
       [k |-> "lam2", phi1 |-> lat, lam1 |-> lon, theta |-> theta,
        delta |-> [num |-> radius_meters, den |-> R]] >>

\* lines 64-75: the outcomes of one pass of the loop's body, the destination
\* point at bearing theta and distance radius_meters from (lat, lon), or the
\* ValueError of math.asin
destination_point(lat, lon, theta, radius_meters) ==
    {Return(arc_point(lat, lon, theta, radius_meters))}
    \cup (IF asin_out_of_domain(lat, theta, radius_meters)
          THEN {Raise("ValueError")} ELSE {})

\* lines 47-79: the outcomes of the loop: centre, the n arc points, centre,
\* or the ValueError of an arc point
polygon_points(lat, lon, azimuth, beamwidth, radius_meters) ==
    LET n == num_points(beamwidth)
        theta(j) == angle(azimuth, beamwidth, n, j - 1)
    IN  {Return(<< <<lat, lon>> >>
                \o [j \in 1..n |-> arc_point(lat, lon, theta(j), radius_meters)]
                \o << <<lat, lon>> >>)}
        \cup (IF \E j \in 1..n :
                    Raise("ValueError") \in
                        destination_point(lat, lon, theta(j), radius_meters)
              THEN {Raise("ValueError")} ELSE {})

\* lines 21-79: the set of outcomes of a call.  int(inf) raises OverflowError
\* (line 44); math.sin / math.cos of an infinite latitude or angular
\* distance raise ValueError (line 69), as math.asin may at a pole.  The
\* function validates nothing.
get_sector_polygon(lat, lon, azimuth, beamwidth, radius_meters) ==
    IF beamwidth.k = "inf" /\ beamwidth.v = 1 THEN {Raise("OverflowError")}
    ELSE IF lat.k = "inf" \/ radius_meters.k = "inf" THEN {Raise("ValueError")}
    ELSE polygon_points(lat, lon, azimuth, beamwidth, radius_meters)

\* ------------------------------------------------------------------------
\* State
\* ------------------------------------------------------------------------

VARIABLES
    pc,             \* position in the script, or in the direct call
    args,           \* SpecPoly: the arguments of the direct call
    result,         \* SpecPoly: what the direct call produced
    uploaded_file,  \* st.file_uploader's value
    sector_radius,  \* the sidebar slider (line 15)
    df,             \* the data frame after dropna: <<[label, row]>>
    m,              \* the polygons added to the folium map
    messages,       \* st.info / st.success / st.warning / st.error, in order
    calls,          \* the calls of get_sector_polygon made by the loop
    pos,            \* the loop's position in df (1-based)
    rendered        \* st_folium was called

vars == <<pc, args, result, uploaded_file, sector_radius, df, m, messages,
          calls, pos, rendered>>

NoArgs == [lat |-> NaN, lon |-> NaN, azimuth |-> NaN, beamwidth |-> NaN,
           radius_meters |-> NaN]

NoFile == [kind |-> "none", columns |-> {}, rows |-> << >>]

\* ------------------------------------------------------------------------
\* SpecPoly: a direct call of get_sector_polygon
\* ------------------------------------------------------------------------

Latitudes == {Deg(-91), Deg(0), Fin((19 * Resolution) \div 2),
              Fin((103 * Resolution) \div 2), Fin((295 * Resolution) \div 4),
              Deg(90), NaN, Inf(1)}

Longitudes == {Deg(-181), Deg(0), Deg(180), Inf(-1)}

Azimuths == {Deg(0), Deg(90), Deg(-45), Inf(1)}

Beamwidths == {Deg(-20), Deg(0), Fin(1), Deg(2), Deg(5), Deg(10),
               Fin(10 * Resolution + 1), Fin(11 * Resolution - 1), Deg(11),
               Fin(12 * Resolution - 1), Deg(60), Deg(61), Deg(360), Deg(400),
               Tiny, NaN, Inf(1), Inf(-1)}

\* 8961219 m is the arc from latitude 9.5 to the north pole, 602934192 m the
\* arc of 15 turns and 16.25 degrees from latitude 73.75 to it
Radii == {Fin(-100), Fin(0), Fin(1000), Fin(8961219), Fin(602934192), Inf(1)}

InitPoly ==
    /\ pc = "call"
    /\ args \in [lat : Latitudes, lon : Longitudes, azimuth : Azimuths,
                 beamwidth : Beamwidths, radius_meters : Radii]
    /\ result = Raise("")
    /\ uploaded_file = NoFile
    /\ sector_radius = 300
    /\ df = << >>
    /\ m = << >>
    /\ messages = << >>
    /\ calls = << >>
    /\ pos = 0
    /\ rendered = FALSE

Call ==
    /\ pc = "call"
    /\ result' \in get_sector_polygon(args.lat, args.lon, args.azimuth,
                                      args.beamwidth, args.radius_meters)
    /\ pc' = "returned"
    /\ UNCHANGED <<args, uploaded_file, sector_radius, df, m, messages, calls,
                   pos, rendered>>

NextPoly == Call

SpecPoly == InitPoly /\ [][NextPoly]_vars

\* ------------------------------------------------------------------------
\* Spec: one run of the script on an uploaded file
\* ------------------------------------------------------------------------

REQUIRED_COLUMNS == {"ENODEB_ID", "CELL_ID", "LONGITUDE", "LATITUDE",
                     "AZIMUTH", "BEAMWIDTH_H"}

\* line 136: the row label above which a plotted row ends the loop
CapLabel == 100

\* line 15: the slider's minimum, default and maximum
SectorRadii == {50, 300, 2000}

\* A row of the CSV by kind; label is its 0-based position in the file.
BaseRow(label) ==
    [ENODEB_ID |-> Fin(1), CELL_ID |-> Fin(label),
     LATITUDE |-> Fin((103 * Resolution) \div 2), LONGITUDE |-> Deg(0),
     AZIMUTH |-> Deg(90), BEAMWIDTH_H |-> Deg(5)]

RowOf(kind, label) ==
    CASE kind = "good"     -> BaseRow(label)
      [] kind = "wide"     -> [BaseRow(label) EXCEPT !.BEAMWIDTH_H = Deg(11)]
      [] kind = "na_lat"   -> [BaseRow(label) EXCEPT !.LATITUDE = NaN]
      [] kind = "na_lon"   -> [BaseRow(label) EXCEPT !.LONGITUDE = NaN]
      [] kind = "na_az"    -> [BaseRow(label) EXCEPT !.AZIMUTH = NaN]
      [] kind = "na_bw"    -> [BaseRow(label) EXCEPT !.BEAMWIDTH_H = NaN]
      [] kind = "na_id"    -> [BaseRow(label) EXCEPT !.CELL_ID = NaN]
      [] kind = "text_lat" -> [BaseRow(label) EXCEPT !.LATITUDE = Text]
      [] kind = "text_az"  -> [BaseRow(label) EXCEPT !.AZIMUTH = Text]
      [] kind = "text_bw"  -> [BaseRow(label) EXCEPT !.BEAMWIDTH_H = Text]
      [] kind = "inf_lat"  -> [BaseRow(label) EXCEPT !.LATITUDE = Inf(-1)]
      [] kind = "pinf_lat" -> [BaseRow(label) EXCEPT !.LATITUDE = Inf(1)]
      [] kind = "inf_az"   -> [BaseRow(label) EXCEPT !.AZIMUTH = Inf(1)]
      [] kind = "ninf_bw"  -> [BaseRow(label) EXCEPT !.BEAMWIDTH_H = Inf(-1)]
      [] kind = "inf_bw"   -> [BaseRow(label) EXCEPT !.BEAMWIDTH_H = Inf(1)]

RowKinds == {"good", "wide", "na_lat", "na_lon", "na_az", "na_bw", "na_id",
             "text_lat", "text_az", "text_bw", "inf_lat", "pinf_lat", "inf_bw",
             "inf_az", "ninf_bw"}

TailKinds == {"good", "na_bw", "text_bw"}

Csv(columns, kinds) ==
    [kind |-> "csv", columns |-> columns,
     rows |-> [j \in 1..Len(kinds) |->
                 [c \in columns |-> RowOf(kinds[j], j - 1)[c]]]]

SmallFiles ==
    {Csv(REQUIRED_COLUMNS, kinds) :
        kinds \in UNION {[1..n -> RowKinds] : n \in 0..SmallRows}}

LargeFiles ==
    {Csv(REQUIRED_COLUMNS,
         [j \in 1..MaxRows |->
            IF j <= MaxRows - TailLen THEN "good" ELSE tail[j - (MaxRows - TailLen)]]) :
        tail \in [1..TailLen -> TailKinds]}

FilesMissingColumns ==
    {Csv(columns, <<"good">>) : columns \in (SUBSET REQUIRED_COLUMNS) \ {REQUIRED_COLUMNS}}

UploadedFiles ==
    {NoFile, [kind |-> "unreadable", columns |-> {}, rows |-> << >>]}
    \cup FilesMissingColumns \cup SmallFiles

Init ==
    /\ pc = "start"
    /\ args = NoArgs
    /\ result = Raise("")
    /\ \/ uploaded_file \in UploadedFiles /\ sector_radius \in SectorRadii
       \/ uploaded_file \in LargeFiles /\ sector_radius = 300
    /\ df = << >>
    /\ m = << >>
    /\ messages = << >>
    /\ calls = << >>
    /\ pos = 0
    /\ rendered = FALSE

Message(level, what, i, detail) ==
    [level |-> level, what |-> what, i |-> i, detail |-> detail]

\* lines 144-145: the outer handler
ErrorReadingFile(e) == Message("error", "Error reading file", -1, {e})

\* lines 147-148
InfoNoFile ==
    /\ pc = "start"
    /\ uploaded_file.kind = "none"
    /\ messages' = Append(messages, Message("info", "Please upload a CSV file", -1,
                                            REQUIRED_COLUMNS))
    /\ pc' = "done"
    /\ UNCHANGED <<args, result, uploaded_file, sector_radius, df, m, calls, pos,
                   rendered>>

\* line 89 raising, lines 144-145
ReadCsvFails ==
    /\ pc = "start"
    /\ uploaded_file.kind = "unreadable"
    /\ messages' = Append(messages, ErrorReadingFile("ParserError"))
    /\ pc' = "done"
    /\ UNCHANGED <<args, result, uploaded_file, sector_radius, df, m, calls, pos,
                   rendered>>

\* line 92 looking only at the identifier columns
missing_id_cols(columns) == {col \in {"ENODEB_ID", "CELL_ID"} : col \notin columns}

\* line 92
missing_cols(columns) == {col \in REQUIRED_COLUMNS : col \notin columns}

\* lines 89-94
MissingColumns ==
    /\ pc = "start"
    /\ uploaded_file.kind = "csv"
    /\ missing_cols(uploaded_file.columns) # {}
    /\ messages' = Append(messages, Message("error", "Missing required columns in CSV",
                                            -1, missing_cols(uploaded_file.columns)))
    /\ pc' = "done"
    /\ UNCHANGED <<args, result, uploaded_file, sector_radius, df, m, calls, pos,
                   rendered>>

\* pandas.read_csv: the rows under their labels 0, 1, 2, ...
read_csv(file) == [j \in 1..Len(file.rows) |-> [label |-> j - 1, row |-> file.rows[j]]]

\* line 97 with the subset cut down to the identifier columns
dropna_ids_only(frame, subset) ==
    LET Complete(r) == \A c \in {"ENODEB_ID", "CELL_ID"} : r.row[c].k # "nan"
    IN  SelectSeq(frame, Complete)

\* line 97: DataFrame.dropna(subset=...) keeps the rows, under their labels,
\* that have no missing value in the subset's columns
dropna(frame, subset) ==
    LET Complete(r) == \A c \in subset : r.row[c].k # "nan"
    IN  SelectSeq(frame, Complete)

\* lines 89-103, 141-142: the columns are all there
LoadAndClean ==
    /\ pc = "start"
    /\ uploaded_file.kind = "csv"
    /\ missing_cols(uploaded_file.columns) = {}
    /\ IF ~(REQUIRED_COLUMNS \subseteq uploaded_file.columns)
       THEN \* dropna raises KeyError on a column the frame lacks
            /\ messages' = Append(messages, ErrorReadingFile("KeyError"))
            /\ pc' = "done"
            /\ df' = df
       ELSE LET clean == dropna(read_csv(uploaded_file), REQUIRED_COLUMNS)
                loaded == Message("success", "Loaded sectors successfully", Len(clean), {})
            IN  /\ df' = clean
                /\ IF Len(clean) > 0
                   THEN /\ messages' = Append(messages, loaded)
                        /\ pc' = "center"
                   ELSE /\ messages' = messages \o
                             <<loaded, Message("warning", "Dataframe empty", -1, {})>>
                        /\ pc' = "done"
    /\ UNCHANGED <<args, result, uploaded_file, sector_radius, m, calls, pos, rendered>>

\* a column read_csv could not parse as numbers holds strings
HoldsText(file, col) == \E j \in 1..Len(file.rows) : file.rows[j][col].k = "text"

\* lines 105-106: the mean of a column is NaN when it holds both inf and -inf
mean_is_nan(frame, col) ==
    /\ \E k \in 1..Len(frame) : frame[k].row[col] = Inf(1)
    /\ \E k \in 1..Len(frame) : frame[k].row[col] = Inf(-1)

\* lines 105-108.  Series.mean() on a column of strings raises TypeError or
\* returns a number, depending on the pandas version and the strings.
CreateMap ==
    /\ pc = "center"
    /\ ~mean_is_nan(df, "LATITUDE")
    /\ ~mean_is_nan(df, "LONGITUDE")
    /\ pos' = 1
    /\ pc' = "loop"
    /\ UNCHANGED <<args, result, uploaded_file, sector_radius, df, m, messages, calls,
                   rendered>>

\* lines 105-106 raising, lines 144-145
MeanRaises ==
    /\ pc = "center"
    /\ HoldsText(uploaded_file, "LATITUDE") \/ HoldsText(uploaded_file, "LONGITUDE")
    /\ messages' = Append(messages, ErrorReadingFile("TypeError"))
    /\ pc' = "done"
    /\ UNCHANGED <<args, result, uploaded_file, sector_radius, df, m, calls, pos,
                   rendered>>

\* line 108 raising, lines 144-145: folium.Map rejects a NaN location
MapRaises ==
    /\ pc = "center"
    /\ mean_is_nan(df, "LATITUDE") \/ mean_is_nan(df, "LONGITUDE")
    /\ messages' = Append(messages, ErrorReadingFile("ValueError"))
    /\ pc' = "done"
    /\ UNCHANGED <<args, result, uploaded_file, sector_radius, df, m, calls, pos,
                   rendered>>

\* lines 113-116: float() of the four cells, in the order of the code
Converted(row) ==
    IF \E c \in {"LATITUDE", "LONGITUDE", "AZIMUTH", "BEAMWIDTH_H"} : row[c].k = "text"
    THEN Raise("ValueError")
    ELSE Return(<<row.LATITUDE, row.LONGITUDE, row.AZIMUTH, row.BEAMWIDTH_H>>)

\* a coordinate of a polygon is NaN: a NaN input, or a formula of
\* lines 69-70 applied to one
is_nan(coord) ==
    CASE coord.k = "nan"  -> TRUE
      [] coord.k = "phi2" -> \/ coord.phi1.k = "nan" \/ coord.theta.k = "nan"
                             \/ coord.delta.num.k = "nan"
      [] coord.k = "lam2" -> \/ coord.phi1.k = "nan" \/ coord.lam1.k = "nan"
                             \/ coord.theta.k = "nan" \/ coord.delta.num.k = "nan"
      [] OTHER -> FALSE

\* lines 122-130: folium.Polygon rejects locations that contain a NaN
polygon_rejected(locations) ==
    \E j \in 1..Len(locations) : is_nan(locations[j][1]) \/ is_nan(locations[j][2])

\* lines 113-130: the outcomes of the body of the try: the conversions, the
\* call, the polygon added to the map
Attempt(row, radius) ==
    IF Converted(row).status = "raise" THEN {Converted(row)}
    ELSE {IF o.status = "return" /\ polygon_rejected(o.value)
          THEN Raise("ValueError") ELSE o :
             o \in get_sector_polygon(row.LATITUDE, row.LONGITUDE, row.AZIMUTH,
                                      row.BEAMWIDTH_H, Fin(radius))}

\* line 118 being reached: the arguments of the call and the row's label
CallsWith(label, row, radius) ==
    IF Converted(row).status = "raise" THEN calls
    ELSE Append(calls, [i |-> label, lat |-> row.LATITUDE, lon |-> row.LONGITUDE,
                        azimuth |-> row.AZIMUTH, beamwidth |-> row.BEAMWIDTH_H,
                        radius_meters |-> Fin(radius)])

\* lines 111-130, 136-137: a row is plotted, and ends the loop if its label
\* is above the cap
PlotRow ==
    /\ pc = "loop"
    /\ pos <= Len(df)
    /\ LET i == df[pos].label
           row == df[pos].row
       IN  \E points \in Attempt(row, sector_radius) :
              /\ points.status = "return"
              /\ calls' = CallsWith(i, row, sector_radius)
              /\ m' = Append(m, [i |-> i, locations |-> points.value,
                                 tooltip |-> <<row.ENODEB_ID, row.CELL_ID,
                                               row.AZIMUTH, row.BEAMWIDTH_H>>])
              /\ IF i > CapLabel
                 THEN pc' = "render" /\ pos' = pos
                 ELSE pc' = "loop" /\ pos' = pos + 1
    /\ UNCHANGED <<args, result, uploaded_file, sector_radius, df, messages, rendered>>

\* lines 132-134 ending the loop instead of continuing
WarnRowAndStop ==
    /\ pc = "loop"
    /\ pos <= Len(df)
    /\ LET i == df[pos].label
           row == df[pos].row
       IN  \E points \in Attempt(row, sector_radius) :
              /\ points.status = "raise"
              /\ calls' = CallsWith(i, row, sector_radius)
              /\ messages' = Append(messages, Message("warning", "Error plotting row", i,
                                                      {points.error}))
              /\ pc' = "render"
              /\ pos' = pos
    /\ UNCHANGED <<args, result, uploaded_file, sector_radius, df, m, rendered>>

\* lines 111-130, 132-134: something in the body raises; the row is warned
\* about and the loop continues, past the check of line 136
WarnRow ==
    /\ pc = "loop"
    /\ pos <= Len(df)
    /\ LET i == df[pos].label
           row == df[pos].row
       IN  \E points \in Attempt(row, sector_radius) :
              /\ points.status = "raise"
              /\ calls' = CallsWith(i, row, sector_radius)
              /\ messages' = Append(messages, Message("warning", "Error plotting row", i,
                                                      {points.error}))
              /\ pc' = "loop"
              /\ pos' = pos + 1
    /\ UNCHANGED <<args, result, uploaded_file, sector_radius, df, m, rendered>>

\* line 111 exhausted, or line 137 taken; line 139
Render ==
    /\ \/ pc = "render"
       \/ pc = "loop" /\ pos > Len(df)
    /\ rendered' = TRUE
    /\ pc' = "done"
    /\ UNCHANGED <<args, result, uploaded_file, sector_radius, df, m, messages, calls,
                   pos>>

Next ==
    \/ InfoNoFile
    \/ ReadCsvFails
    \/ MissingColumns
    \/ LoadAndClean
    \/ CreateMap
    \/ MeanRaises
    \/ MapRaises
    \/ PlotRow
    \/ WarnRow
    \/ Render

Spec == Init /\ [][Next]_vars

\* ------------------------------------------------------------------------
\* Properties of get_sector_polygon (SpecPoly)
\* ------------------------------------------------------------------------

Returned == pc = "returned" /\ result.status = "return"

\* x is finite and lies in [-bound, bound] degrees
WithinDegrees(x, bound) ==
    \/ x.k = "fin" /\ x.v >= -(bound * Resolution) /\ x.v <= bound * Resolution
    \/ x.k = "tiny"

\* x is a number at or below zero
NonPositive(x) == (x.k = "fin" /\ x.v <= 0) \/ (x.k = "inf" /\ x.v = -1)

\* x is a finite number above zero
Positive(x) == (x.k = "fin" /\ x.v > 0) \/ x.k = "tiny"

\* the inputs the sector polygon operation is specified to reject
InvalidArgs(a) ==
    \/ NonPositive(a.radius_meters)
    \/ NonPositive(a.beamwidth)
    \/ (a.lat.k \in {"fin", "inf"} /\ ~WithinDegrees(a.lat, 90))
    \/ (a.lon.k \in {"fin", "inf"} /\ ~WithinDegrees(a.lon, 180))

\* the inputs it is specified to accept
ValidArgs(a) ==
    /\ WithinDegrees(a.lat, 90)
    /\ WithinDegrees(a.lon, 180)
    /\ a.azimuth.k \in {"fin", "tiny"}
    /\ Positive(a.beamwidth)
    /\ Positive(a.radius_meters)

\* bearing of the j-th arc point (j = 1..n) of a polygon
Bearing(polygon, j) == polygon[j + 1][1].theta

\* the rational r equals p / q (q > 0)
RatEq(r, p, q) == r.k = "rat" /\ r.num * q = p * r.den

\* r < s for rationals with positive denominators
RatLess(r, s) ==
    IF r.den = s.den THEN r.num < s.num ELSE r.num * s.den < s.num * r.den

\* s - r = p / q for rationals with positive denominators
RatStepIs(r, s, p, q) ==
    IF r.den = s.den
    THEN (s.num - r.num) * q = p * r.den
    ELSE (s.num * r.den - r.num * s.den) * q = p * r.den * s.den

\* C1: get_sector_polygon fails with InvalidGeometryError, and returns no
\* polygon, whenever radius_meters <= 0, or beamwidth <= 0, or latitude is
\* outside [-90, 90], or longitude is outside [-180, 180].
C1_InvalidInputRejected ==
    (pc = "returned" /\ InvalidArgs(args))
        => (result.status = "raise" /\ result.error = "InvalidGeometryError")

\* the radius is the distance from the centre to a pole, along the meridian
PoleOnArc(a) ==
    /\ a.lat.k \in {"fin", "tiny"}
    /\ a.radius_meters.k = "fin"
    /\ \E s \in {1, -1} :
          near_pole(IF a.lat.k = "tiny" THEN Fin(0) ELSE a.lat, s, a.radius_meters)

\* C2: for every valid input get_sector_polygon returns a polygon, and the
\* polygon is a closed ring, its first and its last point both being
\* exactly (latitude, longitude).
C2_ClosedRing ==
    (pc = "returned" /\ ValidArgs(args))
        => /\ result.status = "return"
           /\ Len(result.value) >= 2
           /\ result.value[1] = <<args.lat, args.lon>>
           /\ result.value[Len(result.value)] = <<args.lat, args.lon>>

\* Python's round(): to the nearest integer, ties to the even one
RoundHalfEven(v) ==
    LET q == v \div Resolution
        r == v % Resolution
    IN  IF 2 * r < Resolution THEN q
        ELSE IF 2 * r > Resolution THEN q + 1
        ELSE IF q % 2 = 0 THEN q ELSE q + 1

Max(a, b) == IF a >= b THEN a ELSE b

\* C3 as stated: for every valid input the polygon has n + 2 points with
\* n = max(3, round(beamwidth)) when beamwidth > 10 and n = 10 otherwise.
C3_RoundedCount ==
    (Returned /\ ValidArgs(args))
        => Len(result.value) =
                2 + (IF GreaterThan(args.beamwidth, 10 * Resolution)
                     THEN Max(3, RoundHalfEven(args.beamwidth.v))
                     ELSE 10)

\* C3 amended: for every valid input get_sector_polygon either raises
\* ValueError, which it can only where the radius is the distance from the
\* centre to a pole, or returns a polygon of n + 2 points with
\* n = max(3, floor(beamwidth)) when beamwidth > 10 and n = 10 otherwise:
\* the fractional part of the beamwidth is dropped, not rounded.
C3_TruncatedCount ==
    (pc = "returned" /\ ValidArgs(args))
        => \/ /\ result.status = "raise"
              /\ result.error = "ValueError"
              /\ PoleOnArc(args)
           \/ /\ result.status = "return"
              /\ Len(result.value) =
                    2 + (IF GreaterThan(args.beamwidth, 10 * Resolution)
                         THEN Max(3, args.beamwidth.v \div Resolution)
                         ELSE 10)

C3_Witness ==
    /\ Returned
    /\ ValidArgs(args)
    /\ args.beamwidth = Fin(12 * Resolution - 1)
    /\ Len(result.value) = 13

\* C4: every polygon get_sector_polygon returns, on any input on which it
\* returns at all, has at least 5 points: the centre, at least 3 arc
\* points and the closing centre.
C4_AtLeastFivePoints ==
    Returned
        => /\ Len(result.value) >= 5
           /\ \A j \in 2..(Len(result.value) - 1) : result.value[j][1].k = "phi2"

C4_Witness ==
    /\ Returned
    /\ args.beamwidth = Fin(1)
    /\ Len(result.value) = 12

InScenarioC7 ==
    /\ pc = "returned"
    /\ args.lat = Deg(0) /\ args.lon = Deg(0) /\ args.azimuth = Deg(0)
    /\ args.beamwidth = Deg(60) /\ args.radius_meters = Fin(1000)

\* C7 as stated: for centre (0, 0), azimuth 0, beamwidth 60, radius 1000
\* there are 60 arc points with bearings from -30 to +30 degrees, and one
\* of them is sampled at bearing exactly 0.
C7_MidpointSampled ==
    InScenarioC7
        => /\ result.status = "return"
           /\ Len(result.value) = 62
           /\ RatEq(Bearing(result.value, 1), -30, 1)
           /\ RatEq(Bearing(result.value, 60), 30, 1)
           /\ \E j \in 1..60 : RatEq(Bearing(result.value, j), 0, 1)

\* C7 amended: for centre (0, 0), azimuth 0, beamwidth 60, radius 1000
\* there are 60 arc points with bearings from -30 to +30 degrees; none is
\* sampled at bearing 0: the two nearest, the 30th and the 31st, are at
\* -30/59 and +30/59 degrees.
C7_MidpointStraddled ==
    InScenarioC7
        => /\ result.status = "return"
           /\ Len(result.value) = 62
           /\ RatEq(Bearing(result.value, 1), -30, 1)
           /\ RatEq(Bearing(result.value, 60), 30, 1)
           /\ \A j \in 1..60 : ~RatEq(Bearing(result.value, j), 0, 1)
           /\ RatEq(Bearing(result.value, 30), -30, 59)
           /\ RatEq(Bearing(result.value, 31), 30, 59)

C7_Witness == InScenarioC7 /\ Returned /\ Len(result.value) = 62

\* the bearing r, in units of 1e-30 degrees, equals p / q (q > 0)
TinyEq(r, p, q) == r.k = "tiny" /\ r.num * q = p * r.den

\* the polygon is the centre, n arc points each at its bearing, the centre
CentreArcCentre(polygon, a) ==
    LET n == Len(polygon) - 2
    IN  /\ n >= 2
        /\ polygon[1] = <<a.lat, a.lon>>
        /\ polygon[n + 2] = <<a.lat, a.lon>>
        /\ \A j \in 1..n :
              Return(polygon[j + 1]) \in
                 destination_point(a.lat, a.lon, Bearing(polygon, j), a.radius_meters)

MustFail(k) == \A o \in Attempt(df[k].row, sector_radius) : o.status = "raise"

\* the k-th row of df raises nowhere in the body of the try
CannotFail(k) == \A o \in Attempt(df[k].row, sector_radius) : o.status = "return"

\* the row labelled i has a polygon on the map
Plotted(i) == \E j \in 1..Len(m) : m[j].i = i

\* the per-record warnings issued for the row labelled i
WarningsFor(i) ==
    {j \in 1..Len(messages) : messages[j].level = "warning" /\ messages[j].i = i}

\* no row before the k-th was plotted with a label above the cap
BeforeCap(k) ==
    \A j \in 1..(k - 1) : WarningsFor(df[j].label) # {} \/ df[j].label <= CapLabel

InLoop == pc \in {"loop", "render"} \/ (pc = "done" /\ rendered)

\* C5: in the plotting loop a record that raises is skipped with exactly one
\* per-record warning and no polygon, and the loop goes on: a failing record
\* neither aborts the batch nor keeps a later record, within the cap, from
\* being plotted.
C5_FailingRecordSkipped ==
    InLoop
        => \A k \in 1..Len(df) :
              /\ k < pos
                    => \/ /\ Cardinality(WarningsFor(df[k].label)) = 1
                          /\ ~Plotted(df[k].label)
                       \/ /\ WarningsFor(df[k].label) = {}
                          /\ Plotted(df[k].label)
              /\ (pc = "done" /\ MustFail(k)) => ~Plotted(df[k].label)
              /\ (pc = "done" /\ BeforeCap(k) /\ CannotFail(k)) => Plotted(df[k].label)

C5_Witness ==
    /\ pc = "done"
    /\ rendered
    /\ Len(df) = 2
    /\ MustFail(1)
    /\ df[1].row.BEAMWIDTH_H = Inf(1)
    /\ Cardinality(WarningsFor(df[1].label)) = 1
    /\ CannotFail(2)
    /\ Plotted(df[2].label)

\* C6: for any number of records and any pattern of failures, no record
\* with row label above 101 is passed to get_sector_polygon or plotted.
C6_NothingPastTheCap ==
    /\ \A j \in 1..Len(calls) : calls[j].i <= CapLabel + 1
    /\ \A j \in 1..Len(m) : m[j].i <= CapLabel + 1

LacksColumns ==
    uploaded_file.kind = "csv" /\ ~(REQUIRED_COLUMNS \subseteq uploaded_file.columns)

\* C8: when the CSV lacks a required column, exactly one blocking error is
\* reported, naming the missing columns, and nothing else happens: no record
\* is converted, get_sector_polygon is not called, no warning is issued and
\* no map is rendered.
C8_MissingColumnsBlock ==
    LacksColumns
        => /\ df = << >>
           /\ calls = << >>
           /\ m = << >>
           /\ ~rendered
           /\ pc \in {"start", "done"}
           /\ pc = "start" => messages = << >>
           /\ pc = "done" =>
                 messages = << Message("error", "Missing required columns in CSV", -1,
                                       REQUIRED_COLUMNS \ uploaded_file.columns) >>

C8_Witness ==
    /\ LacksColumns
    /\ pc = "done"
    /\ "ENODEB_ID" \in uploaded_file.columns
    /\ "LATITUDE" \notin uploaded_file.columns
    /\ Len(messages) = 1

NumericFields == {"LATITUDE", "LONGITUDE", "AZIMUTH", "BEAMWIDTH_H"}

Missing(row) == \E c \in NumericFields : row[c].k = "nan"

\* C10: no record with a missing latitude, longitude, azimuth or beamwidth is
\* passed to get_sector_polygon: such rows are gone from the batch before
\* the loop starts, and every record the loop visits has all four.
C10_NoMissingFieldReachesEngine ==
    /\ \A j \in 1..Len(calls) :
          /\ calls[j].lat.k # "nan" /\ calls[j].lon.k # "nan"
          /\ calls[j].azimuth.k # "nan" /\ calls[j].beamwidth.k # "nan"
    /\ \A k \in 1..Len(df) : ~Missing(df[k].row)
    /\ pc \in {"center", "loop", "render"} \/ rendered
          => \A j \in 1..Len(uploaded_file.rows) :
                ~Missing(uploaded_file.rows[j])
                    => \/ \E k \in 1..Len(df) : df[k].label = j - 1
                       \/ uploaded_file.rows[j].CELL_ID.k = "nan"
                       \/ uploaded_file.rows[j].ENODEB_ID.k = "nan"

C10_Witness ==
    /\ pc = "done"
    /\ rendered
    /\ Len(uploaded_file.rows) = 2
    /\ uploaded_file.rows[1].AZIMUTH.k = "nan"
    /\ Len(df) = 1
    /\ Len(calls) = 1
    /\ calls[1].i = 1

====
